---- MODULE Spec2Model ----
(***************************************************************************)
(* A model of Tools/JSObjects.cpp: the JSON value tree, the path resolver  *)
(* JSObject::traverse, the serializer dump/dump1/QuoteString, and the      *)
(* builder callbacks that JSDictionary::Parse registers with the push      *)
(* parser, including the setjmp/longjmp abort of _json_err.                *)
(*                                                                         *)
(* Text (paths, keys, string values, serializer output) is a sequence of   *)
(* byte values 0..255.  A Value is a record                                *)
(*     [tag, num, str, keys, elems]                                        *)
(* where tag is the variant, num the payload of Boolean (0/1), Integer and *)
(* Real (a Real holds its value in tenths: num = 15 is 1.5), str the bytes *)
(* of a String, keys the keys of a Dictionary in insertion order and elems *)
(* the children of an Array or the values of a Dictionary (elems[i] is the *)
(* value of keys[i]).                                                      *)
(***************************************************************************)
EXTENDS Integers, Sequences, FiniteSets, TLC

VARIABLES
    \* ---- JSObject::traverse ----
    tree,      \* the tree `this` is the root of, or NoTree when this == nullptr
    segs,      \* the path as the sequence of segments it was composed from
    path,      \* the path argument: the bytes of segs, one after the other
    cpath,     \* read position in path, 1-based; Len(path)+1 is the final NUL
    obj,       \* the current node, as the child positions leading to it from the root
    tpc,       \* "call" | "loop" | "done"
    ret,       \* the returned node (as obj), or NullObj
    iters,     \* iterations of the scan loop begun so far
    \* ---- JSObject::dump ----
    indent,    \* dump's indent argument
    out,       \* the bytes written to fp
    dpc,       \* "idle" | "call" | "done"
    \* ---- JSDictionary::Parse and the builder callbacks ----
    heap,      \* the Values created so far; a Value's id is its position, and the
               \* elems of a container are the ids of its children
    live,      \* ids of the Values not destroyed
    root,      \* Parse's local `root`: an id, or NullId
    stack,     \* the push parser's open handles, innermost last; RootSlot is &root
    ppc,       \* "idle" | "parsing" | "returned" | "asserted" | "crashed"
    result,    \* what Parse returned: an id, or NullId
    ndebug,    \* whether the build defines NDEBUG (assert compiled away)
    aborted,   \* whether _json_err took the longjmp
    calls,     \* how many times the error policy was called
    contract,  \* whether every event so far gave a key exactly to Dictionary targets
    ef,        \* the policy in ErrorContext: "caller" (the caller's) | "default"
    errs,      \* the (line, column, message) of the error events sent so far
    heard,     \* the (line, column, message) the policy was called with so far
    begun,     \* whether the push parser has begun the top-level container
    \* ---- the push parser reading the text of a dump ----
    lpos,      \* read position in `out`, 1-based
    lkey,      \* the key read and not yet used, or NullKey
    \* ---- a second Parse call on another thread ----
    self,      \* which of the two calls the variables above belong to: 1 or 2
    other,     \* the locals of the call that is not stepping, or NoCall
    vb         \* the static callback table _json_vb

tvars == <<tree, segs, path, cpath, obj, tpc, ret, iters>>
dvars == <<indent, out, dpc>>
pvars == <<heap, live, root, stack, ppc, result, ndebug, aborted, calls, contract,
          ef, errs, heard, begun>>
lvars == <<lpos, lkey>>
cvars == <<self, other, vb>>

(***************************************************************************)
(* Bytes.                                                                  *)
(***************************************************************************)
Ascii ==
    [ tab |-> 9, nl |-> 10, bel |-> 7, space |-> 32, quote |-> 34, plus |-> 43,
      comma |-> 44, minus |-> 45, dot |-> 46, zero |-> 48, one |-> 49,
      two |-> 50, three |-> 51, five |-> 53, eight |-> 56, colon |-> 58,
      X |-> 88, lbracket |-> 91, backslash |-> 92, rbracket |-> 93,
      a |-> 97, b |-> 98, c |-> 99, e |-> 101, f |-> 102, l |-> 108,
      n |-> 110, r |-> 114, s |-> 115, t |-> 116, u |-> 117, x |-> 120,
      lbrace |-> 123, rbrace |-> 125, hi |-> 200 ]

\* The byte at 1-based position i of the C string s; the terminating NUL past its end.
CharAt(s, i) == IF i >= 1 /\ i <= Len(s) THEN s[i] ELSE 0

\* The concatenation of a sequence of byte strings.
RECURSIVE Flatten(_)
Flatten(ss) == IF ss = <<>> THEN <<>> ELSE Head(ss) \o Flatten(Tail(ss))

(***************************************************************************)
(* The Value variants (JSNull, JSBoolean, JSInteger, JSReal, JSString,     *)
(* JSArray, JSDictionary).                                                 *)
(***************************************************************************)
Leaf(tag, num, str) ==
    [tag |-> tag, num |-> num, str |-> str, keys |-> <<>>, elems |-> <<>>]

JSNull       == Leaf("Null", 0, <<>>)
JSBoolean(v) == Leaf("Boolean", IF v THEN 1 ELSE 0, <<>>)
JSInteger(i) == Leaf("Integer", i, <<>>)
JSReal(tenths) == Leaf("Real", tenths, <<>>)
JSString(s)  == Leaf("String", 0, s)
JSArray(es)  == [tag |-> "Array", num |-> 0, str |-> <<>>, keys |-> <<>>, elems |-> es]
JSDictionary(ks, vs) ==
    [tag |-> "Dictionary", num |-> 0, str |-> <<>>, keys |-> ks, elems |-> vs]

IsContainer(v) == v.tag \in {"Array", "Dictionary"}

\* JSArray::count()
Count(a) == Len(a.elems)

\* The 1-based position of key k in dictionary d, 0 when absent (JSDictionary::value
\* returns nullptr then).
KeyPos(d, k) ==
    IF \E i \in 1..Len(d.keys) : d.keys[i] = k
    THEN CHOOSE i \in 1..Len(d.keys) : d.keys[i] = k
    ELSE 0

\* The node of tree t that the child positions addr lead to.
RECURSIVE NodeAt(_, _)
NodeAt(t, addr) ==
    IF addr = <<>> THEN t ELSE NodeAt(t.elems[Head(addr)], Tail(addr))

NoTree  == [tag |-> "nullptr", num |-> 0, str |-> <<>>, keys |-> <<>>, elems |-> <<>>]
NullObj == <<0>>

NullId   == 0
RootSlot == 0
NullKey  == <<0>>

\* The three machines at rest.
TraverseIdle ==
    /\ tree = NoTree /\ segs = <<>> /\ path = <<>> /\ cpath = 0
    /\ obj = <<>> /\ tpc = "idle" /\ ret = NullObj /\ iters = 0

DumpIdle == indent = 0 /\ out = <<>> /\ dpc = "idle"

LexIdle == lpos = 0 /\ lkey = NullKey

\* Lines 222-229: the callback table, by the names of its entries.
JsonVb ==
    << "_json_string", "_json_int", "_json_double", "_json_bool", "_json_null",
       "_json_new_obj", "_json_obj", "_json_new_array", "_json_array", "_json_delete" >>

NoCall == [ppc |-> "none"]

\* One Parse call only.
SingleCall == self = 1 /\ other = NoCall /\ vb = JsonVb

ParseIdle ==
    /\ heap = <<>> /\ live = {} /\ root = NullId /\ stack = <<>> /\ ppc = "idle"
    /\ result = NullId /\ ndebug = FALSE /\ aborted = FALSE /\ calls = 0
    /\ contract = TRUE
    /\ ef = "caller" /\ errs = <<>> /\ heard = <<>> /\ begun = FALSE
    /\ SingleCall

(***************************************************************************)
(* strtoul(nptr, &end, 0), as JSObject::traverse calls it on the text      *)
(* after '['.  White space is skipped, a sign is accepted, base 0 selects  *)
(* hexadecimal after "0x"/"0X", octal after "0" and decimal otherwise.     *)
(* When no digit is converted the value is 0 and end is nptr itself.  A    *)
(* negated non-zero value wraps to ULONG_MAX + 1 - value, which is above   *)
(* every count(): HugeIndex stands for it, and for every converted value   *)
(* at or above it (the result is only ever compared with count()).         *)
(***************************************************************************)
HugeIndex == 10^6

IsSpace(ch) == ch = 32 \/ (ch >= 9 /\ ch <= 13)

\* The value of byte ch as a digit; 99 when it is none.
DigitVal(ch) ==
    IF ch >= 48 /\ ch <= 57 THEN ch - 48
    ELSE IF ch >= 97 /\ ch <= 122 THEN ch - 97 + 10
    ELSE IF ch >= 65 /\ ch <= 90 THEN ch - 65 + 10
    ELSE 99

RECURSIVE SkipSpace(_, _)
SkipSpace(s, i) == IF IsSpace(CharAt(s, i)) THEN SkipSpace(s, i + 1) ELSE i

\* Digits of the base from position i on: [value, end], acc the value so far.
RECURSIVE ScanDigits(_, _, _, _)
ScanDigits(s, i, base, acc) ==
    IF DigitVal(CharAt(s, i)) < base
    THEN ScanDigits(s, i + 1, base,
                    IF acc * base + DigitVal(CharAt(s, i)) >= HugeIndex
                    THEN HugeIndex ELSE acc * base + DigitVal(CharAt(s, i)))
    ELSE [value |-> acc, end |-> i]

Strtoul(s, nptr) ==
    LET p1   == SkipSpace(s, nptr)
        neg  == CharAt(s, p1) = Ascii.minus
        p2   == IF CharAt(s, p1) \in {Ascii.minus, Ascii.plus} THEN p1 + 1 ELSE p1
        hex  == /\ CharAt(s, p2) = Ascii.zero
                /\ CharAt(s, p2 + 1) \in {Ascii.x, Ascii.X}
                /\ DigitVal(CharAt(s, p2 + 2)) < 16
        base == IF hex THEN 16 ELSE IF CharAt(s, p2) = Ascii.zero THEN 8 ELSE 10
        p3   == IF hex THEN p2 + 2 ELSE p2
        r    == ScanDigits(s, p3, base, 0)
    IN  IF r.end = p3
        THEN [value |-> 0, end |-> nptr]
        ELSE [value |-> IF neg /\ r.value # 0 THEN HugeIndex ELSE r.value,
              end   |-> r.end]

(***************************************************************************)
(* The inputs of traverse: a tree and a path composed of at most MaxSegs   *)
(* segments of PathSegs.  MaxIters caps the count of loop iterations.      *)
(***************************************************************************)
MaxSegs  == 3
MaxIters == 6

Seg ==
    [ a      |-> <<Ascii.a>>,
      dotA   |-> <<Ascii.dot, Ascii.a>>,
      dotB   |-> <<Ascii.dot, Ascii.b>>,
      dot    |-> <<Ascii.dot>>,
      idx0   |-> <<Ascii.lbracket, Ascii.zero, Ascii.rbracket>>,
      idx1   |-> <<Ascii.lbracket, Ascii.one, Ascii.rbracket>>,
      idxNone  |-> <<Ascii.lbracket, Ascii.rbracket>>,
      idxX   |-> <<Ascii.lbracket, Ascii.x, Ascii.rbracket>>,
      idx1X  |-> <<Ascii.lbracket, Ascii.one, Ascii.x, Ascii.rbracket>>,
      idxOpen  |-> <<Ascii.lbracket, Ascii.one>>,
      aEscDotB |-> <<Ascii.a, Ascii.backslash, Ascii.dot, Ascii.b>>,
      aEscEscDotB |-> <<Ascii.a, Ascii.backslash, Ascii.backslash, Ascii.dot, Ascii.b>>,
      aEscBracket |-> <<Ascii.a, Ascii.backslash, Ascii.lbracket>> ]

PathSegs == { Seg[n] : n \in DOMAIN Seg }

\* Keys and strings of the sample trees.
KeyA     == <<Ascii.a>>
KeyB     == <<Ascii.b>>
KeyADotB == <<Ascii.a, Ascii.dot, Ascii.b>>
StrS     == <<Ascii.s>>

TreeArr   == JSArray(<< JSString(StrS),
                        JSDictionary(<<KeyA, KeyB>>,
                                     <<JSInteger(1), JSArray(<<JSInteger(5)>>)>>) >>)
TreeDict  == JSDictionary(<<KeyA, KeyADotB>>,
                          << JSArray(<< JSString(StrS),
                                        JSDictionary(<<KeyB>>, <<JSInteger(1)>>) >>),
                             JSInteger(2) >>)
TreeDict2 == JSDictionary(<<KeyA, Seg.aEscDotB, KeyADotB, <<>>, Seg.aEscBracket>>,
                          << JSDictionary(<<KeyB, KeyA>>, <<JSInteger(7), JSNull>>),
                             JSInteger(4),
                             JSInteger(5),
                             JSBoolean(FALSE),
                             JSArray(<<JSInteger(9)>>) >>)

TraverseTrees ==
    { JSNull, JSBoolean(TRUE), JSInteger(1), JSReal(15), JSString(StrS),
      JSArray(<<>>), TreeArr, TreeDict, TreeDict2 }

RECURSIVE SeqsUpTo(_, _)
SeqsUpTo(S, n) ==
    IF n = 0 THEN { <<>> }
    ELSE LET shorter == SeqsUpTo(S, n - 1)
         IN  shorter \cup { Append(q, x) : q \in shorter, x \in S }

(***************************************************************************)
(* JSObject::traverse, one action per path through one pass of its code.   *)
(***************************************************************************)
\* Lines 54-61: the position where the key that begins at bpath ends.
RECURSIVE KeyEnd(_, _, _)
KeyEnd(s, bpath, i) ==
    IF CharAt(s, i) = 0 THEN i
    ELSE IF /\ CharAt(s, i) \in {Ascii.dot, Ascii.lbracket}
            /\ (i = bpath \/ CharAt(s, i - 1) # Ascii.backslash)
         THEN i
         ELSE KeyEnd(s, bpath, i + 1)

\* The slice with its backslashes taken out.
KeyTextUnescaped(s, bpath, epath) ==
    SelectSeq(SubSeq(s, bpath, epath - 1), LAMBDA ch : ch # Ascii.backslash)

\* Line 63: std::string(bpath, cpath - bpath), the raw slice of the path.
KeyText(s, bpath, epath) == SubSeq(s, bpath, epath - 1)

Cur == NodeAt(tree, obj)

\* TraverseEnter with the empty path answered by nullptr instead of this.
TraverseEnterEmptyIsNone ==
    /\ tpc = "call"
    /\ IF tree = NoTree \/ path = <<>>
       THEN tpc' = "done" /\ ret' = NullObj /\ UNCHANGED cpath
       ELSE tpc' = "loop" /\ cpath' = 1 /\ UNCHANGED ret
    /\ UNCHANGED <<tree, segs, path, obj, iters>>
    /\ UNCHANGED <<dvars, pvars, lvars, cvars>>

\* Lines 25-31: the null check, the empty-path check, cpath = path.c_str().
TraverseEnter ==
    /\ tpc = "call"
    /\ IF tree = NoTree
       THEN tpc' = "done" /\ ret' = NullObj /\ UNCHANGED cpath
       ELSE IF path = <<>>
            THEN tpc' = "done" /\ ret' = obj /\ UNCHANGED cpath
            ELSE tpc' = "loop" /\ cpath' = 1 /\ UNCHANGED ret
    /\ UNCHANGED <<tree, segs, path, obj, iters>>
    /\ UNCHANGED <<dvars, pvars, lvars, cvars>>

\* Lines 33, 72: the scan reached the NUL; obj is the result.
TraverseReturn ==
    /\ tpc = "loop"
    /\ CharAt(path, cpath) = 0
    /\ tpc' = "done"
    /\ ret' = obj
    /\ UNCHANGED <<tree, segs, path, cpath, obj, iters>>
    /\ UNCHANGED <<dvars, pvars, lvars, cvars>>

\* Lines 34-47: an index segment.
IndexSegment ==
    /\ tpc = "loop"
    /\ iters < MaxIters
    /\ CharAt(path, cpath) = Ascii.lbracket
    /\ iters' = iters + 1
    /\ IF Cur.tag = "Array"
       THEN LET r == Strtoul(path, cpath + 1)
            IN  IF r.value >= Count(Cur) \/ CharAt(path, r.end) # Ascii.rbracket
                THEN tpc' = "done" /\ ret' = NullObj /\ UNCHANGED <<obj, cpath>>
                ELSE /\ obj' = Append(obj, r.value + 1)
                     /\ cpath' = r.end + 1
                     /\ UNCHANGED <<tpc, ret>>
       ELSE tpc' = "done" /\ ret' = NullObj /\ UNCHANGED <<obj, cpath>>
    /\ UNCHANGED <<tree, segs, path>>
    /\ UNCHANGED <<dvars, pvars, lvars, cvars>>

\* Lines 48-66 with line 49's cast succeeding: a key segment on a Dictionary.
KeySegment ==
    /\ tpc = "loop"
    /\ iters < MaxIters
    /\ CharAt(path, cpath) \notin {0, Ascii.lbracket}
    /\ obj = <<>> \/ CharAt(path, cpath) = Ascii.dot
    /\ Cur.tag = "Dictionary"
    /\ iters' = iters + 1
    /\ LET bpath == IF CharAt(path, cpath) = Ascii.dot THEN cpath + 1 ELSE cpath
           epath == KeyEnd(path, bpath, bpath)
           pos   == KeyPos(Cur, KeyText(path, bpath, epath))
       IN  IF pos = 0
           THEN tpc' = "done" /\ ret' = NullObj /\ UNCHANGED obj /\ cpath' = epath
           ELSE obj' = Append(obj, pos) /\ cpath' = epath /\ UNCHANGED <<tpc, ret>>
    /\ UNCHANGED <<tree, segs, path>>
    /\ UNCHANGED <<dvars, pvars, lvars, cvars>>

\* Lines 48-49, 66 with line 49's cast failing: the if at line 49 has no else, so
\* the pass ends with cpath and obj as they were and the loop tests *cpath again.
KeyOnNonDictionary ==
    /\ tpc = "loop"
    /\ iters < MaxIters
    /\ CharAt(path, cpath) \notin {0, Ascii.lbracket}
    /\ obj = <<>> \/ CharAt(path, cpath) = Ascii.dot
    /\ Cur.tag # "Dictionary"
    /\ iters' = iters + 1
    /\ UNCHANGED <<tree, segs, path, cpath, obj, tpc, ret>>
    /\ UNCHANGED <<dvars, pvars, lvars, cvars>>

\* Any other character skipped.
RejectCharSkips ==
    /\ tpc = "loop"
    /\ iters < MaxIters
    /\ CharAt(path, cpath) \notin {0, Ascii.lbracket, Ascii.dot}
    /\ obj # <<>>
    /\ iters' = iters + 1
    /\ cpath' = cpath + 1
    /\ UNCHANGED <<tree, segs, path, obj, tpc, ret>>
    /\ UNCHANGED <<dvars, pvars, lvars, cvars>>

\* Lines 67-69: any other character once obj has left the root.
RejectChar ==
    /\ tpc = "loop"
    /\ iters < MaxIters
    /\ CharAt(path, cpath) \notin {0, Ascii.lbracket, Ascii.dot}
    /\ obj # <<>>
    /\ iters' = iters + 1
    /\ tpc' = "done"
    /\ ret' = NullObj
    /\ UNCHANGED <<tree, segs, path, cpath, obj>>
    /\ UNCHANGED <<dvars, pvars, lvars, cvars>>

(***************************************************************************)
(* The serializer: dump, Indent, QuoteString and each variant's dump1.     *)
(***************************************************************************)
Txt ==
    [ null  |-> <<Ascii.n, Ascii.u, Ascii.l, Ascii.l>>,
      true  |-> <<Ascii.t, Ascii.r, Ascii.u, Ascii.e>>,
      false |-> <<Ascii.f, Ascii.a, Ascii.l, Ascii.s, Ascii.e>>,
      sep   |-> <<Ascii.comma, Ascii.nl>>,
      colon |-> <<Ascii.space, Ascii.colon, Ascii.space>> ]

RECURSIVE Spaces(_)
Spaces(n) == IF n <= 0 THEN <<>> ELSE <<Ascii.space>> \o Spaces(n - 1)

\* Lines 82-84: fprintf(fp, "%*s", n * 4, "").
Indent(n) == Spaces(n * 4)

\* The same digits in upper case.
HexDigitUpper(d) == IF d < 10 THEN Ascii.zero + d ELSE 65 + (d - 10)

\* The digit of the low three bits only.
HexDigitOctal(d) == Ascii.zero + (d % 8)

\* "0123456789abcdef"[d]
HexDigit(d) == IF d < 10 THEN Ascii.zero + d ELSE Ascii.a + (d - 10)

\* Lines 86-103.
RECURSIVE QuoteString(_)
QuoteString(s) ==
    IF s = <<>> THEN <<>>
    ELSE LET ch == Head(s)
         IN  (IF ch < 32
              THEN <<Ascii.backslash, HexDigit((ch \div 16) % 16), HexDigit(ch % 16)>>
              ELSE IF ch = Ascii.quote \/ ch = Ascii.backslash
                   THEN <<Ascii.backslash, ch>>
                   ELSE <<ch>>)
             \o QuoteString(Tail(s))

\* The decimal digits of n >= 0.
RECURSIVE Digits(_)
Digits(n) ==
    IF n < 10 THEN <<Ascii.zero + n>> ELSE Digits(n \div 10) \o <<Ascii.zero + (n % 10)>>

\* printf's "%lld".
FormatLld(i) == IF i < 0 THEN <<Ascii.minus>> \o Digits(-i) ELSE Digits(i)

\* printf's "%g" of the value tenths/10, for magnitudes below 10^5: the integer
\* part, then '.' and the tenths digit unless that digit is 0 (trailing zeros and a
\* bare '.' are removed).
FormatG(tenths) ==
    LET mag == IF tenths < 0 THEN -tenths ELSE tenths
    IN  (IF tenths < 0 THEN <<Ascii.minus>> ELSE <<>>)
        \o Digits(mag \div 10)
        \o (IF mag % 10 = 0 THEN <<>> ELSE <<Ascii.dot, Ascii.zero + (mag % 10)>>)

\* Lines 109-116.
DumpInteger(v, ind) == Indent(ind) \o FormatLld(v.num)

\* Lines 122-125.
DumpReal(v, ind) == Indent(ind) \o FormatG(v.num)

\* Lines 131-134.
DumpString(v, ind) ==
    Indent(ind) \o <<Ascii.quote>> \o QuoteString(v.str) \o <<Ascii.quote>>

\* Lines 140-143.
DumpBoolean(v, ind) == Indent(ind) \o (IF v.num # 0 THEN Txt.true ELSE Txt.false)

\* Lines 149-152.
DumpNull(v, ind) == Indent(ind) \o Txt.null

RECURSIVE Dump1(_, _, _)

\* Lines 162-170: the elements from position i on.
RECURSIVE DumpArrayFrom(_, _, _)
DumpArrayFrom(v, cindent, i) ==
    IF i > Len(v.elems) THEN <<>>
    ELSE (IF i # 1 THEN Txt.sep ELSE <<>>)
         \o (IF IsContainer(v.elems[i]) THEN Indent(cindent + 1) ELSE <<>>)
         \o Dump1(v.elems[i], cindent + 1, cindent + 1)
         \o DumpArrayFrom(v, cindent, i + 1)

\* DumpArray with an empty Array written as "[]", without the space.
DumpArrayTight(v, cindent) ==
    <<Ascii.lbracket>>
    \o (IF v.elems = <<>> THEN <<>> ELSE <<Ascii.nl>>)
    \o DumpArrayFrom(v, cindent, 1)
    \o (IF v.elems # <<>> THEN <<Ascii.nl>> \o Indent(cindent) ELSE <<>>)
    \o <<Ascii.rbracket>>

\* Lines 158-178.
DumpArray(v, cindent) ==
    <<Ascii.lbracket>>
    \o <<IF v.elems = <<>> THEN Ascii.space ELSE Ascii.nl>>
    \o DumpArrayFrom(v, cindent, 1)
    \o (IF v.elems # <<>> THEN <<Ascii.nl>> \o Indent(cindent) ELSE <<>>)
    \o <<Ascii.rbracket>>

\* Lines 188-195: the entries from position i on.
RECURSIVE DumpDictionaryFrom(_, _, _)
DumpDictionaryFrom(v, cindent, i) ==
    IF i > Len(v.keys) THEN <<>>
    ELSE (IF i # 1 THEN Txt.sep ELSE <<>>)
         \o Indent(cindent + 1)
         \o <<Ascii.quote>> \o QuoteString(v.keys[i]) \o <<Ascii.quote>> \o Txt.colon
         \o Dump1(v.elems[i], 0, cindent + 1)
         \o DumpDictionaryFrom(v, cindent, i + 1)

\* Lines 184-203.
DumpDictionary(v, cindent) ==
    <<Ascii.lbrace>>
    \o <<IF v.keys = <<>> THEN Ascii.space ELSE Ascii.nl>>
    \o DumpDictionaryFrom(v, cindent, 1)
    \o (IF v.keys # <<>> THEN <<Ascii.nl>> \o Indent(cindent) ELSE <<>>)
    \o <<Ascii.rbrace>>

\* The virtual call v->dump1(fp, indent, cindent).
Dump1(v, ind, cindent) ==
    CASE v.tag = "Null"       -> DumpNull(v, ind)
      [] v.tag = "Boolean"    -> DumpBoolean(v, ind)
      [] v.tag = "Integer"    -> DumpInteger(v, ind)
      [] v.tag = "Real"       -> DumpReal(v, ind)
      [] v.tag = "String"     -> DumpString(v, ind)
      [] v.tag = "Array"      -> DumpArray(v, cindent)
      [] v.tag = "Dictionary" -> DumpDictionary(v, cindent)

\* Lines 75-80, fp not null.
Dump(v, ind) == Dump1(v, ind, ind) \o <<Ascii.nl>>

\* The call tree->dump(fp, indent).
DumpCall ==
    /\ dpc = "call"
    /\ out' = Dump(tree, indent)
    /\ dpc' = "done"
    /\ UNCHANGED <<indent, tvars, pvars, lvars, cvars>>

(***************************************************************************)
(* The inputs of dump: leaves of every variant, containers of at most      *)
(* MaxWidth entries over them, and two further levels of nesting; indent   *)
(* is at most MaxIndent.                                                   *)
(***************************************************************************)
MaxWidth  == 2
MaxIndent == 1

StrBelQuote == <<Ascii.bel, Ascii.quote>>
StrBackslash == <<Ascii.a, Ascii.backslash>>
KeyQuote    == <<Ascii.quote>>

DumpLeaves ==
    { JSNull, JSBoolean(TRUE), JSInteger(-12), JSReal(15), JSReal(30),
      JSString(StrBelQuote) }

DumpKeys == { KeyA, KeyQuote }

\* The key sequences without a repeated key.
DistinctKeySeqs(K, n) ==
    { ks \in SeqsUpTo(K, n) : \A i, j \in 1..Len(ks) : i # j => ks[i] # ks[j] }

\* The Arrays and Dictionaries of at most n entries whose children are in C.
Containers(C, K, n) ==
    { JSArray(es) : es \in SeqsUpTo(C, n) }
    \cup { JSDictionary(ks, vs) :
             <<ks, vs>> \in { kv \in DistinctKeySeqs(K, n) \X SeqsUpTo(C, n) :
                                Len(kv[1]) = Len(kv[2]) } }

Nested1 ==
    { JSInteger(-12), JSArray(<<>>), JSDictionary(<<>>, <<>>),
      JSArray(<<JSString(StrBackslash)>>), JSDictionary(<<KeyA>>, <<JSNull>>) }

Nested2 ==
    { JSReal(30),
      JSArray(<<JSArray(<<JSInteger(3)>>), JSDictionary(<<>>, <<>>)>>),
      JSDictionary(<<KeyQuote>>,
                   <<JSDictionary(<<KeyB>>, <<JSArray(<<JSBoolean(FALSE)>>)>>)>>) }

DumpTrees ==
    DumpLeaves
    \cup Containers(DumpLeaves, DumpKeys, MaxWidth)
    \cup Containers(Nested1, DumpKeys, MaxWidth)
    \cup Containers(Nested2, DumpKeys, MaxWidth)

DumpInit ==
    /\ ParseIdle
    /\ LexIdle
    /\ tree \in DumpTrees
    /\ segs = <<>> /\ path = <<>> /\ cpath = 0
    /\ obj = <<>> /\ tpc = "idle" /\ ret = NullObj /\ iters = 0
    /\ indent \in 0..MaxIndent
    /\ out = <<>>
    /\ dpc = "call"

DumpNext == DumpCall

(***************************************************************************)
(* The inputs of QuoteString through JSString::dump1: every byte string of *)
(* at most MaxQuoteLen bytes over QuoteBytes (control bytes with a decimal *)
(* and with a letter hex digit, NUL, the two escaped bytes, plain bytes    *)
(* and a byte above 0x7F).                                                 *)
(***************************************************************************)
MaxQuoteLen == 3

QuoteBytes ==
    { 0, Ascii.bel, Ascii.nl, 31, Ascii.quote, Ascii.zero, Ascii.backslash,
      Ascii.a, Ascii.hi }

QuoteTrees == { JSString(s) : s \in SeqsUpTo(QuoteBytes, MaxQuoteLen) }

QuoteInit ==
    /\ ParseIdle
    /\ LexIdle
    /\ tree \in QuoteTrees
    /\ segs = <<>> /\ path = <<>> /\ cpath = 0
    /\ obj = <<>> /\ tpc = "idle" /\ ret = NullObj /\ iters = 0
    /\ indent \in 0..MaxIndent
    /\ out = <<>>
    /\ dpc = "call"


(***************************************************************************)
(* The builder callbacks of _json_vb.  The push parser hands each callback *)
(* the handle of the container it is filling: the id of an Array or a      *)
(* Dictionary, or RootSlot (the address of Parse's `root`) while no        *)
(* container is open.  A callback applied to the state yields the set of   *)
(* states the build can produce: reading the root slot as if it were a     *)
(* JSObject (JSCastTo on &root) is undefined, and either faults or finds   *)
(* neither type; a failed assert ends the process unless NDEBUG is         *)
(* defined.                                                                *)
(***************************************************************************)
MaxNodes == 3

St(hp, lv, rt, pc) == [heap |-> hp, live |-> lv, root |-> rt, ppc |-> pc]

Range(q) == { q[i] : i \in DOMAIN q }

\* The ids of the Value id and of everything it owns.
RECURSIVE Owned(_, _)
Owned(hp, id) == {id} \cup UNION { Owned(hp, ch) : ch \in Range(hp[id].elems) }

\* JSArray::append
ArrayAppend(hp, lv, a, id) ==
    [heap |-> [hp EXCEPT ![a].elems = Append(@, id)], live |-> lv]

\* JSDictionary::set: a new key is added last; an existing key keeps its place and
\* its old value is destroyed.
DictSet(hp, lv, d, k, id) ==
    LET pos == KeyPos(hp[d], k)
    IN  IF pos = 0
        THEN [heap |-> [hp EXCEPT ![d].keys = Append(@, k), ![d].elems = Append(@, id)],
              live |-> lv]
        ELSE [heap |-> [hp EXCEPT ![d].elems[pos] = id],
              live |-> lv \ Owned(hp, hp[d].elems[pos])]

\* assert(...) failing: the process aborts, or nothing happens under NDEBUG.
AssertFails(hp, lv) == St(hp, lv, root, IF ndebug THEN "parsing" ELSE "asserted")

Faults(hp, lv) == St(hp, lv, root, "crashed")

\* The cascade with the key of _json_new_obj's test in front: a key is accepted for
\* a Dictionary target only.
AttachCascadeKeyed(h, m, n, hpA, lvA, hpN, lvN) ==
    IF h = RootSlot
    THEN { Faults(hpN, lvN), AssertFails(hpN, lvN) }
    ELSE IF m = NullKey /\ hpA[h].tag = "Array"
    THEN LET r == ArrayAppend(hpA, lvA, h, n)
         IN  { St(r.heap, r.live, root, "parsing") }
    ELSE IF m # NullKey /\ hpA[h].tag = "Dictionary"
    THEN LET r == DictSet(hpA, lvA, h, m, n)
         IN  { St(r.heap, r.live, root, "parsing") }
    ELSE { AssertFails(hpN, lvN) }

\* The cascade of lines 232-240 (and 245-253, 258-266, 271-279, 284-292, 325-333):
\* append to an Array, set in a Dictionary, assert otherwise.  hpA, lvA hold the new
\* Value n; hpN, lvN are the Values when none of the two branches constructs it.
AttachCascade(h, m, n, hpA, lvA, hpN, lvN) ==
    IF h = RootSlot
    THEN { Faults(hpN, lvN), AssertFails(hpN, lvN) }
    ELSE IF hpA[h].tag = "Array"
    THEN LET r == ArrayAppend(hpA, lvA, h, n)
         IN  { St(r.heap, r.live, root, "parsing") }
    ELSE IF hpA[h].tag = "Dictionary"
    THEN IF m = NullKey
         THEN { IF ndebug THEN Faults(hpN, lvN) ELSE St(hpN, lvN, root, "asserted") }
         ELSE LET r == DictSet(hpA, lvA, h, m, n)
              IN  { St(r.heap, r.live, root, "parsing") }
    ELSE { AssertFails(hpN, lvN) }

NewId == Len(heap) + 1

\* The five scalar callbacks construct their leaf inside the branch that attaches it.
ScalarEvent(h, m, leaf) ==
    AttachCascade(h, m, NewId, Append(heap, leaf), live \cup {NewId}, heap, live)

\* Lines 231-242.
JsonString(h, m, s) == ScalarEvent(h, m, JSString(s))
\* Lines 244-255.
JsonInt(h, m, i) == ScalarEvent(h, m, JSInteger(i))
\* Lines 257-268.
JsonDouble(h, m, tenths) == ScalarEvent(h, m, JSReal(tenths))
\* Lines 270-281.
JsonBool(h, m, b) == ScalarEvent(h, m, JSBoolean(b # 0))
\* Lines 283-294.
JsonNull(h, m) == ScalarEvent(h, m, JSNull)

\* Lines 296-318; *obj_new is NewId.
JsonNewObj(h, m) ==
    LET hpA == Append(heap, JSDictionary(<<>>, <<>>))
        lvA == live \cup {NewId}
    IN  IF m = NullKey
        THEN IF h = RootSlot /\ root = NullId
             THEN { St(hpA, lvA, NewId, "parsing") }
             ELSE IF h = RootSlot
             THEN { Faults(hpA, lvA), AssertFails(hpA, lvA) }
             ELSE IF hpA[h].tag = "Array"
             THEN LET r == ArrayAppend(hpA, lvA, h, NewId)
                  IN  { St(r.heap, r.live, root, "parsing") }
             ELSE { AssertFails(hpA, lvA) }
        ELSE IF h = RootSlot
             THEN { Faults(hpA, lvA), AssertFails(hpA, lvA) }
             ELSE IF hpA[h].tag = "Dictionary"
             THEN LET r == DictSet(hpA, lvA, h, m, NewId)
                  IN  { St(r.heap, r.live, root, "parsing") }
             ELSE { AssertFails(hpA, lvA) }

\* Lines 322-337; *array_new is NewId.
JsonNewArray(h, m) ==
    LET hpA == Append(heap, JSArray(<<>>))
        lvA == live \cup {NewId}
    IN  AttachCascade(h, m, NewId, hpA, lvA, hpA, lvA)

(***************************************************************************)
(* JSDictionary::Parse(FILE *, error) and the events of the push parser    *)
(* json_fparse.  The push parser sends every event to its innermost open   *)
(* handle, begins at most one container on the root slot, and returns at   *)
(* the end of the input: with no handle open, or after it reported an      *)
(* error that the policy let pass.  The key argument of an event is any of *)
(* EventKeys or NullKey; `contract` records whether the keys went exactly  *)
(* to the Dictionary targets.                                              *)
(***************************************************************************)
MaxCalls == 2

EventKeys == { KeyA, KeyB }

\* The container created last, whichever call created it.
TargetLatest ==
    IF \E i \in DOMAIN heap : IsContainer(heap[i])
    THEN CHOOSE i \in DOMAIN heap :
            IsContainer(heap[i]) /\ \A j \in DOMAIN heap : IsContainer(heap[j]) => j <= i
    ELSE RootSlot

\* The outermost open container.
TargetOutermost == IF Len(stack) >= 2 THEN stack[2] ELSE stack[Len(stack)]

Target == stack[Len(stack)]

Honors(h, m) == (m # NullKey) <=> (h # RootSlot /\ heap[h].tag = "Dictionary")

Apply(o) == heap' = o.heap /\ live' = o.live /\ root' = o.root /\ ppc' = o.ppc

\* Lines 388-401, fp not null: ectx and root are set up and json_fparse is entered.
ParseSetup ==
    /\ ppc = "call"
    /\ ppc' = "parsing"
    /\ root' = NullId
    /\ stack' = <<RootSlot>>
    /\ UNCHANGED <<heap, live, result, ndebug, aborted, calls, contract, tvars, dvars>>
    /\ UNCHANGED <<ef, errs, heard, begun, cvars>>

ParseEnter == ParseSetup /\ UNCHANGED lvars

\* A scalar event whose callback yields the states `outcomes`.
ScalarStep(outcomes, m) ==
    /\ \E o \in outcomes : Apply(o)
    /\ contract' = (contract /\ Honors(Target, m))
    /\ UNCHANGED <<stack, result, ndebug, aborted, calls, tvars, dvars>>
    /\ UNCHANGED <<ef, errs, heard, begun, cvars>>

CanScalar == ppc = "parsing" /\ Target # RootSlot /\ Len(heap) < MaxNodes

EvString == CanScalar /\ UNCHANGED lvars /\ \E m \in EventKeys \cup {NullKey} : ScalarStep(JsonString(Target, m, StrS), m)
EvInt    == CanScalar /\ UNCHANGED lvars /\ \E m \in EventKeys \cup {NullKey} : ScalarStep(JsonInt(Target, m, 1), m)
EvDouble == CanScalar /\ UNCHANGED lvars /\ \E m \in EventKeys \cup {NullKey} : ScalarStep(JsonDouble(Target, m, 15), m)
EvBool   == CanScalar /\ UNCHANGED lvars /\ \E m \in EventKeys \cup {NullKey} : ScalarStep(JsonBool(Target, m, 1), m)
EvNull   == CanScalar /\ UNCHANGED lvars /\ \E m \in EventKeys \cup {NullKey} : ScalarStep(JsonNull(Target, m), m)

\* A beginContainer event: the push parser makes the returned handle its innermost.
BeginStep(outcomes, m) ==
    /\ \E o \in outcomes :
          /\ Apply(o)
          /\ stack' = IF o.ppc = "parsing" THEN Append(stack, NewId) ELSE stack
    /\ contract' = (contract /\ Honors(Target, m))
    /\ begun' = TRUE
    /\ UNCHANGED <<result, ndebug, aborted, calls, tvars, dvars>>
    /\ UNCHANGED <<ef, errs, heard, cvars>>

CanBegin ==
    /\ ppc = "parsing"
    /\ Len(heap) < MaxNodes
    /\ Target = RootSlot => ~begun

EvNewObj   == CanBegin /\ UNCHANGED lvars /\ \E m \in EventKeys \cup {NullKey} : BeginStep(JsonNewObj(Target, m), m)
EvNewArray == CanBegin /\ UNCHANGED lvars /\ \E m \in EventKeys \cup {NullKey} : BeginStep(JsonNewArray(Target, m), m)

\* Lines 320 and 339: _json_obj and _json_array do nothing; the push parser closes
\* its innermost handle.
EndContainer ==
    /\ ppc = "parsing"
    /\ Len(stack) > 1
    /\ stack' = SubSeq(stack, 1, Len(stack) - 1)
    /\ UNCHANGED <<heap, live, root, ppc, result, ndebug, aborted, calls, contract>>
    /\ UNCHANGED <<ef, errs, heard, begun, cvars>>
    /\ UNCHANGED <<tvars, dvars>>

EvEnd == EndContainer /\ UNCHANGED lvars

\* The answers of the policy ctx->ef: the caller's may answer either way; the
\* lambda of lines 381-382 and 406-407 always answers false.
PolicyAnswersAny(f) == BOOLEAN

PolicyAnswers(f) == IF f = "default" THEN {FALSE} ELSE BOOLEAN

\* Lines 353-362 and 394-399: the policy answers continue; or it does not, and
\* longjmp returns control to the setjmp of Parse, which deletes root when it reads
\* it as not null.  root is not volatile: once a callback has changed it after the
\* setjmp, the value Parse reads after the longjmp is indeterminate (ISO C 7.13.2.1),
\* so it reads the Dictionary or the nullptr root held when setjmp was called.
JsonErr(line, column, error) ==
    /\ calls' = calls + 1
    /\ heard' = Append(heard, <<line, column, error>>)
    /\ \E continue \in PolicyAnswers(ef) :
          IF continue
          THEN UNCHANGED <<heap, live, root, stack, ppc, result, aborted>>
          ELSE /\ \E seen \in {root, NullId} :
                     live' = IF seen # NullId THEN live \ Owned(heap, seen) ELSE live
               /\ result' = NullId
               /\ ppc' = "returned"
               /\ aborted' = TRUE
               /\ UNCHANGED <<heap, root, stack>>
    /\ UNCHANGED <<ndebug, contract, ef, begun, tvars, dvars, cvars>>

\* The (line, column, message) the push parser may report.
ErrLines == { 1, 2 }
ErrColumns == { 3 }
ErrMessages == { "syntax error" }

\* An error event: the push parser calls _json_err with err_data = &ectx.
ErrorEvent(line, column, error) ==
    /\ errs' = Append(errs, <<line, column, error>>)
    /\ JsonErr(line, column, error)

EvError ==
    /\ ppc = "parsing"
    /\ calls < MaxCalls
    /\ UNCHANGED lvars
    /\ \E line \in ErrLines, column \in ErrColumns, error \in ErrMessages :
          ErrorEvent(line, column, error)

\* Lines 401-402: json_fparse has returned and Parse returns root.
ParseReturns ==
    /\ ppc = "parsing"
    /\ result' = root
    /\ ppc' = "returned"
    /\ UNCHANGED <<heap, live, root, stack, ndebug, aborted, calls, contract, tvars, dvars>>
    /\ UNCHANGED <<ef, errs, heard, begun, cvars>>

ParseReturn ==
    /\ Len(stack) = 1 \/ calls > 0
    /\ ParseReturns
    /\ UNCHANGED lvars

ParseInit ==
    /\ TraverseIdle
    /\ DumpIdle
    /\ LexIdle
    /\ heap = <<>> /\ live = {} /\ root = NullId /\ stack = <<>> /\ ppc = "call"
    /\ result = NullId /\ ndebug \in BOOLEAN /\ aborted = FALSE /\ calls = 0
    /\ contract = TRUE
    /\ ef \in {"caller", "default"} /\ errs = <<>> /\ heard = <<>> /\ begun = FALSE
    /\ SingleCall

Next ==
    \/ ParseEnter
    \/ EvString
    \/ EvInt
    \/ EvDouble
    \/ EvBool
    \/ EvNull
    \/ EvNewObj
    \/ EvNewArray
    \/ EvEnd
    \/ EvError
    \/ ParseReturn

(***************************************************************************)
(* Two Parse calls on two threads.  Each call has its own locals (root and *)
(* ectx on its stack frame, the handles and the position of its own        *)
(* json_fparse); the Values of both come from the one heap of the process, *)
(* and both are given the address of the one table _json_vb.  The          *)
(* variables root .. heard hold the locals of the call `self` that takes   *)
(* the next step and `other` those of the call that waits; SwitchThread    *)
(* lets the scheduler run the other thread.  Call 1 is given a policy of   *)
(* the caller, call 2 the default one; of the five scalar events, which    *)
(* share one cascade, the calls receive the int event; the two calls       *)
(* together build at most MaxSharedNodes Values.                           *)
(***************************************************************************)
MaxSharedNodes == 2

Locals ==
    [ root |-> root, stack |-> stack, ppc |-> ppc, result |-> result,
      aborted |-> aborted, calls |-> calls, contract |-> contract,
      ef |-> ef, errs |-> errs, heard |-> heard, begun |-> begun ]

SwitchThread ==
    /\ other # NoCall
    /\ ppc # "call" \/ other.ppc # "call"
    /\ self' = 3 - self
    /\ other' = Locals
    /\ root' = other.root /\ stack' = other.stack /\ ppc' = other.ppc
    /\ result' = other.result /\ aborted' = other.aborted /\ calls' = other.calls
    /\ contract' = other.contract /\ ef' = other.ef /\ errs' = other.errs
    /\ heard' = other.heard /\ begun' = other.begun
    /\ UNCHANGED <<heap, live, ndebug, vb, tvars, dvars, lvars>>

ConcurrentInit ==
    /\ TraverseIdle
    /\ DumpIdle
    /\ LexIdle
    /\ heap = <<>> /\ live = {} /\ root = NullId /\ stack = <<>> /\ ppc = "call"
    /\ result = NullId /\ ndebug \in BOOLEAN /\ aborted = FALSE /\ calls = 0
    /\ contract = TRUE
    /\ ef = "caller" /\ errs = <<>> /\ heard = <<>> /\ begun = FALSE
    /\ self = 1
    /\ other = [Locals EXCEPT !.ef = "default"]
    /\ vb = JsonVb

ConcurrentNext ==
    \/ ParseEnter
    \/ Len(heap) < MaxSharedNodes /\ EvInt
    \/ Len(heap) < MaxSharedNodes /\ EvNewObj
    \/ Len(heap) < MaxSharedNodes /\ EvNewArray
    \/ EvEnd
    \/ EvError
    \/ ParseReturn
    \/ SwitchThread

(***************************************************************************)
(* The push parser reading the text that dump wrote (json_fparse, outside  *)
(* this file: modelled as a JSON tokenizer that sends one event per token  *)
(* to the callbacks above).  A string is unescaped: a backslash before '"' *)
(* or a backslash stands for that byte, any other escape is an error.  A   *)
(* number without '.' is sent to _json_int, one with '.' to _json_double.  *)
(* Parse is called without a policy (lines 405-408): every error aborts.   *)
(***************************************************************************)
RECURSIVE SkipBlanks(_, _)
SkipBlanks(t, i) ==
    IF CharAt(t, i) \in {Ascii.space, Ascii.nl, Ascii.tab, Ascii.comma}
    THEN SkipBlanks(t, i + 1) ELSE i

\* The string whose opening quote is before position i: [ok, text, end].
RECURSIVE ScanString(_, _, _)
ScanString(t, i, acc) ==
    IF i > Len(t) THEN [ok |-> FALSE, text |-> acc, end |-> i]
    ELSE IF t[i] = Ascii.quote THEN [ok |-> TRUE, text |-> acc, end |-> i + 1]
    ELSE IF t[i] = Ascii.backslash
         THEN IF CharAt(t, i + 1) \in {Ascii.quote, Ascii.backslash}
              THEN ScanString(t, i + 2, Append(acc, t[i + 1]))
              ELSE [ok |-> FALSE, text |-> acc, end |-> i]
         ELSE ScanString(t, i + 1, Append(acc, t[i]))

IsDigit(ch) == ch >= 48 /\ ch <= 57

\* The number at position i: [isInt, value, end]; value is in tenths when not isInt.
ScanNumber(t, i) ==
    LET neg  == CharAt(t, i) = Ascii.minus
        p    == IF neg THEN i + 1 ELSE i
        ip   == ScanDigits(t, p, 10, 0)
        frac == CharAt(t, ip.end) = Ascii.dot /\ IsDigit(CharAt(t, ip.end + 1))
        fp   == IF frac THEN ScanDigits(t, ip.end + 2, 10, 0) ELSE ip
        mag  == IF frac THEN ip.value * 10 + (CharAt(t, ip.end + 1) - 48) ELSE ip.value
    IN  [isInt |-> ~frac, value |-> IF neg THEN -mag ELSE mag, end |-> fp.end]

Tok == SkipBlanks(out, lpos)

StartsWith(t, i, w) == i + Len(w) - 1 <= Len(t) /\ SubSeq(t, i, i + Len(w) - 1) = w

Lexing == dpc = "done" /\ ppc = "parsing" /\ Tok <= Len(out)

\* The key an event carries: the key read before it, which it uses up.
LexValueStep(outcomes, end) ==
    /\ ScalarStep(outcomes, lkey)
    /\ lpos' = end
    /\ lkey' = NullKey

LexEnter == dpc = "done" /\ ParseSetup /\ lpos' = 1 /\ lkey' = NullKey

LexBeginObj ==
    /\ Lexing
    /\ out[Tok] = Ascii.lbrace
    /\ BeginStep(JsonNewObj(Target, lkey), lkey)
    /\ lpos' = Tok + 1
    /\ lkey' = NullKey

LexBeginArray ==
    /\ Lexing
    /\ out[Tok] = Ascii.lbracket
    /\ BeginStep(JsonNewArray(Target, lkey), lkey)
    /\ lpos' = Tok + 1
    /\ lkey' = NullKey

LexEnd ==
    /\ Lexing
    /\ out[Tok] \in {Ascii.rbrace, Ascii.rbracket}
    /\ EndContainer
    /\ lpos' = Tok + 1
    /\ UNCHANGED lkey

\* A string in a Dictionary with no key pending is the key of the next value.
LexKey ==
    /\ Lexing
    /\ out[Tok] = Ascii.quote
    /\ Target # RootSlot /\ heap[Target].tag = "Dictionary" /\ lkey = NullKey
    /\ LET str == ScanString(out, Tok + 1, <<>>)
           col == SkipBlanks(out, str.end)
       IN  /\ str.ok
           /\ CharAt(out, col) = Ascii.colon
           /\ lkey' = str.text
           /\ lpos' = col + 1
    /\ UNCHANGED <<pvars, tvars, dvars, cvars>>

LexString ==
    /\ Lexing
    /\ out[Tok] = Ascii.quote
    /\ ~(Target # RootSlot /\ heap[Target].tag = "Dictionary" /\ lkey = NullKey)
    /\ LET str == ScanString(out, Tok + 1, <<>>)
       IN  /\ str.ok
           /\ LexValueStep(JsonString(Target, lkey, str.text), str.end)

LexNumber ==
    /\ Lexing
    /\ IsDigit(out[Tok]) \/ out[Tok] = Ascii.minus
    /\ LET num == ScanNumber(out, Tok)
       IN  IF num.isInt
           THEN LexValueStep(JsonInt(Target, lkey, num.value), num.end)
           ELSE LexValueStep(JsonDouble(Target, lkey, num.value), num.end)

LexLiteral ==
    /\ Lexing
    /\ \/ /\ StartsWith(out, Tok, Txt.true)
          /\ LexValueStep(JsonBool(Target, lkey, 1), Tok + Len(Txt.true))
       \/ /\ StartsWith(out, Tok, Txt.false)
          /\ LexValueStep(JsonBool(Target, lkey, 0), Tok + Len(Txt.false))
       \/ /\ StartsWith(out, Tok, Txt.null)
          /\ LexValueStep(JsonNull(Target, lkey), Tok + Len(Txt.null))

\* A string the tokenizer cannot read: the error event, and the default policy.
LexError ==
    /\ Lexing
    /\ out[Tok] = Ascii.quote
    /\ ~ScanString(out, Tok + 1, <<>>).ok
    /\ ErrorEvent(1, Tok, "syntax error")
    /\ UNCHANGED lvars

LexEof ==
    /\ dpc = "done"
    /\ Tok > Len(out)
    /\ ParseReturns
    /\ UNCHANGED lvars

\* The Value with id `id`, its children in place of their ids.
RECURSIVE ToTree(_, _)
ToTree(hp, id) ==
    [hp[id] EXCEPT !.elems = [i \in DOMAIN hp[id].elems |-> ToTree(hp, hp[id].elems[i])]]

RoundTripValues ==
    { JSNull, JSBoolean(TRUE), JSBoolean(FALSE), JSInteger(-12), JSReal(15), JSReal(30),
      JSString(StrS), JSString(StrBelQuote), JSString(StrBackslash),
      JSArray(<<>>), JSDictionary(<<>>, <<>>),
      JSArray(<<JSInteger(3), JSArray(<<JSString(StrS)>>)>>),
      JSDictionary(<<KeyB>>, <<JSArray(<<JSNull>>)>>) }

RoundTripTrees ==
    { t \in Containers(RoundTripValues, DumpKeys, MaxWidth) : t.tag = "Dictionary" }

RoundTripInit ==
    /\ tree \in RoundTripTrees
    /\ segs = <<>> /\ path = <<>> /\ cpath = 0
    /\ obj = <<>> /\ tpc = "idle" /\ ret = NullObj /\ iters = 0
    /\ indent = 0 /\ out = <<>> /\ dpc = "call"
    /\ heap = <<>> /\ live = {} /\ root = NullId /\ stack = <<>> /\ ppc = "call"
    /\ result = NullId /\ ndebug \in BOOLEAN /\ aborted = FALSE /\ calls = 0
    /\ contract = TRUE
    /\ ef = "default" /\ errs = <<>> /\ heard = <<>> /\ begun = FALSE
    /\ SingleCall
    /\ LexIdle

RoundTripNext ==
    \/ DumpCall
    \/ LexEnter
    \/ LexBeginObj
    \/ LexBeginArray
    \/ LexEnd
    \/ LexKey
    \/ LexString
    \/ LexNumber
    \/ LexLiteral
    \/ LexError
    \/ LexEof

TraverseInit ==
    /\ DumpIdle
    /\ ParseIdle
    /\ LexIdle
    /\ tree \in TraverseTrees \cup {NoTree}
    /\ segs \in SeqsUpTo(PathSegs, MaxSegs)
    /\ path = Flatten(segs)
    /\ cpath = 0
    /\ obj = <<>>
    /\ tpc = "call"
    /\ ret = NullObj
    /\ iters = 0

TraverseNext ==
    \/ TraverseEnter
    \/ TraverseReturn
    \/ IndexSegment
    \/ KeySegment
    \/ KeyOnNonDictionary
    \/ RejectChar

vars == <<tvars, dvars, pvars, lvars, cvars>>

Spec == ParseInit /\ [][Next]_vars

SpecTraverse == TraverseInit /\ [][TraverseNext]_vars

SpecDump == DumpInit /\ [][DumpNext]_vars

SpecRoundTrip == RoundTripInit /\ [][RoundTripNext]_vars

SpecQuote == QuoteInit /\ [][DumpNext]_vars

SpecConcurrent == ConcurrentInit /\ [][ConcurrentNext]_vars

(***************************************************************************)
(* The statements checked against the model.                               *)
(***************************************************************************)

\* ---- reference notions the statements use ----

\* The decimal value of a string of digits.
RECURSIVE DecimalValue(_)
DecimalValue(ds) ==
    IF ds = <<>> THEN 0 ELSE DecimalValue(SubSeq(ds, 1, Len(ds) - 1)) * 10 + (ds[Len(ds)] - 48)

IsIndexSeg(sg) == sg # <<>> /\ sg[1] = Ascii.lbracket

\* A decimal index closed by ']'.
WellFormedIndex(sg) ==
    /\ Len(sg) >= 3
    /\ sg[1] = Ascii.lbracket
    /\ sg[Len(sg)] = Ascii.rbracket
    /\ \A k \in 2..(Len(sg) - 1) : IsDigit(sg[k])

PlainKey(k) ==
    /\ k # <<>>
    /\ \A i \in 1..Len(k) : k[i] \notin {Ascii.dot, Ascii.lbracket, Ascii.backslash}

\* The key of a key segment: the segment without its leading '.'.
SegKey(sg) == IF sg # <<>> /\ sg[1] = Ascii.dot THEN Tail(sg) ELSE sg

\* A key without backslashes, after a '.' unless it is the first segment.
WellFormedKey(sg, first) ==
    /\ sg # <<>>
    /\ sg[1] = Ascii.dot \/ first
    /\ PlainKey(SegKey(sg))

WellFormedPath ==
    \A i \in 1..Len(segs) : WellFormedIndex(segs[i]) \/ WellFormedKey(segs[i], i = 1)

\* The node reached from addr by applying the segments ss left to right: a
\* Dictionary lookup for a key, the Array element for an index, NullObj as soon as
\* one of them does not exist.
RECURSIVE Resolve(_, _, _)
Resolve(t, addr, ss) ==
    IF ss = <<>> THEN addr
    ELSE LET node == NodeAt(t, addr)
             sg   == Head(ss)
             idx  == DecimalValue(SubSeq(sg, 2, Len(sg) - 1))
         IN  IF IsIndexSeg(sg)
             THEN IF node.tag = "Array" /\ idx < Count(node)
                  THEN Resolve(t, Append(addr, idx + 1), Tail(ss))
                  ELSE NullObj
             ELSE IF node.tag = "Dictionary" /\ KeyPos(node, SegKey(sg)) # 0
                  THEN Resolve(t, Append(addr, KeyPos(node, SegKey(sg))), Tail(ss))
                  ELSE NullObj

AtChar == CharAt(path, cpath)

\* A key segment is due: the first segment when the path does not start with '[',
\* or any segment starting with '.'.
KeyDue == tpc = "loop" /\ AtChar # 0 /\ ((cpath = 1 /\ AtChar # Ascii.lbracket) \/ AtChar = Ascii.dot)

\* The text of the index segment at position i is not a number closed by ']'.
RECURSIVE ClosePos(_, _)
ClosePos(s, j) == IF j > Len(s) \/ s[j] = Ascii.rbracket THEN j ELSE ClosePos(s, j + 1)

MalformedIndex(s, i) ==
    LET close == ClosePos(s, i + 1)
    IN  \/ close > Len(s)
        \/ close = i + 1
        \/ \E k \in (i + 1)..(close - 1) : ~IsDigit(s[k])

\* The rendering of a container at nesting depth d, as section 4.3 lays it out.
LeafText(v) ==
    CASE v.tag = "Null"    -> Txt.null
      [] v.tag = "Boolean" -> IF v.num # 0 THEN Txt.true ELSE Txt.false
      [] v.tag = "Integer" -> FormatLld(v.num)
      [] v.tag = "Real"    -> FormatG(v.num)
      [] v.tag = "String"  -> <<Ascii.quote>> \o QuoteString(v.str) \o <<Ascii.quote>>

RECURSIVE Rendering(_, _)
RECURSIVE Entries(_, _, _)
Entries(v, d, i) ==
    Spaces(4 * (d + 1))
    \o (IF v.tag = "Dictionary"
        THEN <<Ascii.quote>> \o QuoteString(v.keys[i]) \o <<Ascii.quote>> \o Txt.colon
        ELSE <<>>)
    \o Rendering(v.elems[i], d + 1)
    \o (IF i < Len(v.elems) THEN Txt.sep \o Entries(v, d, i + 1) ELSE <<>>)

Rendering(v, d) ==
    IF ~IsContainer(v) THEN LeafText(v)
    ELSE LET open  == IF v.tag = "Array" THEN Ascii.lbracket ELSE Ascii.lbrace
             close == IF v.tag = "Array" THEN Ascii.rbracket ELSE Ascii.rbrace
         IN  IF v.elems = <<>>
             THEN <<open, Ascii.space, close>>
             ELSE <<open, Ascii.nl>> \o Entries(v, d, 1)
                  \o <<Ascii.nl>> \o Spaces(4 * d) \o <<close>>

\* ---- the statements ----

\* C1: once an error event's policy answered "do not continue", Parse returns no
\* document and no Value built before the abort is left alive.
C1_AbortDiscardsTree ==
    (aborted /\ ppc = "returned") => (result = NullId /\ live = {})

\* C2: while the push parser keeps to its contract, Parse trips no assertion and
\* does not fault, and what it returns is a Dictionary or no document; in particular
\* when the first container is an Array.
C2_DictionaryOrNoDocument ==
    contract =>
        /\ ppc \notin {"asserted", "crashed"}
        /\ ppc = "returned" => (result = NullId \/ heap[result].tag = "Dictionary")

\* C3: when a key segment is due and the current node is not a Dictionary, the
\* next step of traverse is the return of None.
C3_KeyOnNonDictionaryIsNone ==
    [][(KeyDue /\ Cur.tag # "Dictionary") => (tpc' = "done" /\ ret' = NullObj)]_vars

\* C4: every iteration of the scan loop returns or strictly advances cpath.
C4_IterationAdvances ==
    [][(tpc = "loop" /\ iters' = iters + 1) => (tpc' = "done" \/ cpath' > cpath)]_vars

\* C5: on a path of well-formed segments traverse returns the node the segments
\* lead to, taken left to right, or None as soon as a key or an index does not
\* exist; it handles one segment per iteration, so it has returned after as many
\* iterations as there are segments.
C5_WellFormedPathResolves ==
    (tree # NoTree /\ WellFormedPath) =>
        /\ tpc = "done" => ret = Resolve(tree, <<>>, segs)
        /\ tpc = "loop" => iters <= Len(segs)

\* C6: with a key "a.b" in the root Dictionary, the path a\.b returns that entry's
\* value, and the path a.b resolves key a and then key b inside it.
C6_EscapedDotReachesKey ==
    (tpc = "done" /\ tree.tag = "Dictionary" /\ KeyPos(tree, KeyADotB) # 0) =>
        /\ path = Seg.aEscDotB => ret = <<KeyPos(tree, KeyADotB)>>
        /\ segs = <<Seg.a, Seg.dotB>> => ret = Resolve(tree, <<>>, segs)

\* C7: at an index segment whose text is empty, not a number, or not closed by ']'
\* right after the number, on an Array that has elements, the next step of traverse
\* is the return of None.
C7_MalformedIndexIsNone ==
    [][(/\ tpc = "loop"
        /\ AtChar = Ascii.lbracket
        /\ Cur.tag = "Array"
        /\ Count(Cur) >= 1
        /\ MalformedIndex(path, cpath)) => (tpc' = "done" /\ ret' = NullObj)]_vars

\* C8: with the empty path traverse returns the root it was called on, whatever its
\* variant, without running the scan loop.
C8_EmptyPathReturnsRoot ==
    (tpc = "done" /\ path = <<>> /\ tree # NoTree) =>
        (ret = <<>> /\ NodeAt(tree, ret) = tree /\ iters = 0)

C8_Witness ==
    tpc = "done" /\ path = <<>> /\ tree = JSReal(15) /\ ret = <<>>

\* C9: the text dump writes for a Dictionary-rooted tree, read back by Parse, yields
\* a tree equal to the original: same variants, same order, same keys and bytes.
C9_RoundTrip ==
    (dpc = "done" /\ ppc = "returned") =>
        (result # NullId /\ ToTree(heap, result) = tree)

\* C10: dump writes a container at depth d as "[ ]" or "{ }" when it is empty, and
\* otherwise as the bracket, a newline, the entries indented by 4*(d+1) spaces and
\* separated by ",\n", a newline, 4*d spaces and the closing bracket, a Dictionary
\* entry being indent, quoted key, " : ", value; and ends with exactly one newline.
C10_ContainerRendering ==
    dpc = "done" =>
        /\ IsContainer(tree) => out = Rendering(tree, indent) \o <<Ascii.nl>>
        /\ Len(out) >= 2 /\ out[Len(out)] = Ascii.nl /\ out[Len(out) - 1] # Ascii.nl

C10_Witness ==
    /\ dpc = "done"
    /\ indent = 1
    /\ tree = JSDictionary(<<KeyQuote, KeyA>>,
                           << JSArray(<<JSArray(<<JSInteger(3)>>), JSDictionary(<<>>, <<>>)>>),
                              JSReal(30) >>)
    /\ out = Rendering(tree, 1) \o <<Ascii.nl>>

\* ---- String quoting ----

\* What the statement says is written for one byte.
QuotedByte(ch) ==
    IF ch < 32
    THEN << Ascii.backslash,
            <<48, 49, 50, 51, 52, 53, 54, 55, 56, 57, 97, 98, 99, 100, 101, 102>>[(ch \div 16) + 1],
            <<48, 49, 50, 51, 52, 53, 54, 55, 56, 57, 97, 98, 99, 100, 101, 102>>[(ch % 16) + 1] >>
    ELSE IF ch \in {34, 92} THEN <<92, ch>> ELSE <<ch>>

\* The text between the quotes of a dumped String.
Quoted == SubSeq(out, 4 * indent + 2, Len(out) - 2)

\* C11: dump writes a String as its bytes in order between two '"', each byte below
\* 0x20 as a backslash and the two lowercase hex digits of its value, each '"' and
\* backslash behind one backslash, every other byte (0x80..0xFF too) unchanged.
C11_StringQuoting ==
    (dpc = "done" /\ tree.tag = "String") =>
        /\ out = Spaces(4 * indent) \o <<34>>
                 \o Flatten([i \in 1..Len(tree.str) |-> QuotedByte(tree.str[i])])
                 \o <<34, 10>>
        /\ tree.str = <<7, 34>> => Quoted = <<92, 48, 55, 92, 34>>

C11_Witness ==
    /\ dpc = "done"
    /\ indent = 0
    /\ tree = JSString(<<7, 34>>)
    /\ out = <<34, 92, 48, 55, 92, 34, 34, 10>>

\* The value of a hex digit, or -1.
HexValue(ch) ==
    IF ch >= 48 /\ ch <= 57 THEN ch - 48
    ELSE IF ch >= 97 /\ ch <= 102 THEN ch - 87
    ELSE -1

\* Whether every backslash of q opens one of the three escapes: '"', backslash, or
\* two hex digits the first of which is '0' or '1'.
RECURSIVE EscapesOnly(_)
EscapesOnly(q) ==
    IF q = <<>> THEN TRUE
    ELSE IF Head(q) # 92 THEN Head(q) # 34 /\ EscapesOnly(Tail(q))
    ELSE IF Len(q) >= 2 /\ q[2] \in {34, 92} THEN EscapesOnly(SubSeq(q, 3, Len(q)))
    ELSE /\ Len(q) >= 3
         /\ q[2] \in {48, 49}
         /\ HexValue(q[3]) >= 0
         /\ EscapesOnly(SubSeq(q, 4, Len(q)))

\* Reading a quoted text back, escape by escape.
RECURSIVE Unquote(_)
Unquote(q) ==
    IF q = <<>> THEN <<>>
    ELSE IF Head(q) # 92 THEN <<Head(q)>> \o Unquote(Tail(q))
    ELSE IF Len(q) >= 2 /\ q[2] \in {34, 92} THEN <<q[2]>> \o Unquote(SubSeq(q, 3, Len(q)))
    ELSE IF Len(q) >= 3
         THEN <<16 * HexValue(q[2]) + HexValue(q[3])>> \o Unquote(SubSeq(q, 4, Len(q)))
         ELSE <<-1>>

\* C20: the quoted text determines the bytes: every backslash in it opens one of
\* the three escapes, reading the escapes back yields the original String, and no
\* different short byte string is quoted to the same text.
C20_QuoteInjective ==
    (dpc = "done" /\ tree.tag = "String") =>
        /\ EscapesOnly(Quoted)
        /\ Unquote(Quoted) = tree.str
        /\ \A s2 \in SeqsUpTo(QuoteBytes, 2) :
              s2 # tree.str => QuoteString(s2) # Quoted

C20_Witness ==
    /\ dpc = "done"
    /\ tree = JSString(<<92, 48, 31>>)
    /\ Quoted = <<92, 92, 48, 92, 49, 102>>
    /\ Unquote(Quoted) = <<92, 48, 31>>

\* ---- Error events and the policy ----

\* C12: every error event calls the policy once, with the event's (line, column,
\* message); after the answer "continue" nothing built has changed and the builder
\* events are applied as before; after the answer "do not continue" no builder event
\* of this call is applied and no further error is reported; and the default policy
\* never answers "continue", so that the first error event aborts the parse.
C12_ErrorPolicy ==
    /\ [](heard = errs /\ Len(heard) = calls)
    /\ [][(calls' # calls /\ ~aborted') =>
             /\ calls' = calls + 1
             /\ UNCHANGED <<heap, live, root, stack, result>>
             /\ ppc' = "parsing"]_vars
    /\ []((/\ ppc = "parsing" /\ ~aborted /\ calls > 0
           /\ Len(heap) < MaxNodes /\ Target # RootSlot) =>
             (ENABLED EvNewObj /\ ENABLED EvInt /\ ENABLED EvEnd))
    /\ [][aborted => UNCHANGED <<heap, live, root, stack, calls, result>>]_vars
    /\ []((ef = "default" /\ calls > 0) => (calls = 1 /\ aborted /\ ppc = "returned"))

\* An error the policy let pass, a second one it did not, both heard as sent.
C12_Witness ==
    /\ ef = "caller"
    /\ aborted
    /\ heard = << <<2, 3, "syntax error">>, <<1, 3, "syntax error">> >>
    /\ errs = heard
    /\ Len(heap) = 2

\* ---- Two concurrent calls ----

\* The Values a call holds: those under its root and under its open handles.
ValuesOf(ctx) ==
    UNION { Owned(heap, h) : h \in (Range(ctx.stack) \cup {ctx.root}) \ {RootSlot, NullId} }

ScalarEvents(m) ==
    { <<JsonString(Target, m, StrS), JSString(StrS)>>,
      <<JsonInt(Target, m, 1), JSInteger(1)>>,
      <<JsonDouble(Target, m, 15), JSReal(15)>>,
      <<JsonBool(Target, m, 1), JSBoolean(TRUE)>>,
      <<JsonNull(Target, m), JSNull>> }

UniqueKeys(d) == \A i, j \in 1..Len(d.keys) : i # j => d.keys[i] # d.keys[j]

\* What a scalar event with key m that constructs `leaf` has to leave behind.
ScalarAttached(m, leaf) ==
    LET h == Target
        n == Len(heap) + 1
        old == heap[h]
        new == heap'[h]
    IN  /\ old.tag = "Array" =>
              /\ Len(heap') = n /\ heap'[n] = leaf /\ n \in live'
              /\ Count(new) = Count(old) + 1
              /\ new.elems[Count(new)] = n
              /\ SubSeq(new.elems, 1, Count(old)) = old.elems
              /\ new.keys = old.keys
        /\ (old.tag = "Dictionary" /\ m # NullKey) =>
              /\ Len(heap') = n /\ heap'[n] = leaf /\ n \in live'
              /\ KeyPos(new, m) # 0
              /\ new.elems[KeyPos(new, m)] = n
              /\ UniqueKeys(new)
              /\ IF KeyPos(old, m) = 0
                 THEN new.keys = Append(old.keys, m) /\ new.elems = Append(old.elems, n)
                 ELSE /\ new.keys = old.keys
                      /\ \A i \in 1..Len(old.elems) :
                            i # KeyPos(old, m) => new.elems[i] = old.elems[i]
        /\ (old.tag = "Array" \/ m # NullKey) =>
              /\ ppc' = "parsing"
              /\ \A i \in 1..Len(heap) : i # h => heap'[i] = heap[i]

\* C14: each scalar event on an Array adds its leaf as the last element and leaves
\* the earlier ones in place; on a Dictionary with a key it makes value(key) its
\* leaf, a new key going last and a known key keeping its position; so the keys of a
\* Dictionary stay unique, in the order of their first use, each with the leaf of
\* the last event that used it.
C14_ScalarAttach ==
    /\ [][CanScalar =>
             \A m \in EventKeys \cup {NullKey} : \A ev \in ScalarEvents(m) :
                ScalarStep(ev[1], m) => ScalarAttached(m, ev[2])]_vars
    /\ [](\A i \in 1..Len(heap) : UniqueKeys(heap[i]))

\* A Dictionary whose key a was set twice: the first leaf is destroyed, the second
\* is its value.
C14_Witness ==
    /\ Len(heap) = 3
    /\ heap[1].tag = "Dictionary"
    /\ heap[1].keys = <<KeyA>>
    /\ heap[1].elems = <<3>>
    /\ heap[3] = JSBoolean(TRUE)
    /\ live = {1, 3}

\* ---- beginContainer ----

\* The two beginContainer events with key m, each as the states its callback yields
\* and the empty container it constructs.
BeginEvents(m) ==
    { <<JsonNewObj(Target, m), JSDictionary(<<>>, <<>>)>>,
      <<JsonNewArray(Target, m), JSArray(<<>>)>> }

\* C15: a beginContainer event of either kind, sent to an open container, leaves
\* its new empty container where a scalar event with the same key would leave its
\* leaf (appended to an Array target whatever the key, set under the key in a
\* Dictionary target), and the new container is the handle of the events that
\* follow.  (The first container, begun on the root slot, is the matter of C2.)
C15_NestedBeginAttaches ==
    [][(CanBegin /\ Target # RootSlot) =>
          \A m \in EventKeys \cup {NullKey} : \A ev \in BeginEvents(m) :
             BeginStep(ev[1], m) =>
                /\ ScalarAttached(m, ev[2])
                /\ (heap[Target].tag = "Array" \/ m # NullKey) =>
                      stack' = Append(stack, Len(heap) + 1)]_vars

\* ---- Key extent and key text ----

\* Where the key of the due key segment starts: after its '.', when it has one.
KeyStart == IF AtChar = Ascii.dot THEN cpath + 1 ELSE cpath

\* Position j ends the key: the end of the path, or a '.' or '[' that is the first
\* character of the key or does not follow a backslash.
EndsKey(j) ==
    \/ j = Len(path) + 1
    \/ /\ path[j] \in {46, 91}
       /\ (j = KeyStart \/ path[j - 1] # 92)

\* The first position that ends the key.
KeyStop ==
    CHOOSE j \in KeyStart..(Len(path) + 1) :
        EndsKey(j) /\ \A k \in KeyStart..(j - 1) : ~EndsKey(k)

\* C16: the key of a key segment runs to the first '.' or '[' that does not follow a
\* backslash (whatever precedes that backslash) or that is the first character of
\* the key, which then is empty; the Dictionary is searched for the raw slice of
\* the path, backslashes included.
C16_KeyExtentAndText ==
    [][(KeyDue /\ Cur.tag = "Dictionary") =>
          LET text == SubSeq(path, KeyStart, KeyStop - 1)
          IN  /\ cpath' = KeyStop
              /\ IF KeyPos(Cur, text) = 0
                 THEN tpc' = "done" /\ ret' = NullObj
                 ELSE tpc' = "loop" /\ obj' = Append(obj, KeyPos(Cur, text))]_vars

\* The path a\[[0]: the first '[' follows a backslash and stays in the key, the
\* second ends it; the entry is found under the raw text a\[ and indexed.
C16_Witness ==
    /\ tree = TreeDict2
    /\ segs = <<Seg.aEscBracket, Seg.idx0>>
    /\ tpc = "done"
    /\ ret = <<5, 1>>

\* ---- Key segments without a leading '.' ----

\* C17: once traverse has left the root, a character other than '.', '[' and the
\* end of the path makes it return None, so that a key without a leading '.' is read
\* as the first segment only; "[1]a" on an Array whose element 1 has a key a is None.
C17_BareKeyOnlyFirst ==
    /\ [][(tpc = "loop" /\ obj # <<>> /\ AtChar \notin {0, 46, 91}) =>
             (tpc' = "done" /\ ret' = NullObj)]_vars
    /\ [][(tpc = "loop" /\ obj' # obj /\ AtChar \notin {46, 91}) =>
             (obj = <<>> /\ cpath = 1)]_vars
    /\ []((tpc = "done" /\ tree = TreeArr /\ segs = <<Seg.idx1, Seg.a>>) => ret = NullObj)

C17_Witness ==
    /\ tree = TreeArr
    /\ segs = <<Seg.idx1, Seg.a>>
    /\ tpc = "done"
    /\ obj = <<2>>
    /\ cpath = 4
    /\ ret = NullObj

\* ---- The Values form a tree ----

\* The places (container, position) that hold Value id.
OwnersOf(id) ==
    { ci \in (1..Len(heap)) \X (1..MaxNodes) :
        /\ ci[1] \in live
        /\ ci[2] <= Len(heap[ci[1]].elems)
        /\ heap[ci[1]].elems[ci[2]] = id }

\* The live Values are the tree under the pending root: the root is in no
\* container, every other one is in exactly one place, a container holds only Values
\* created after it (so there is no cycle), and all of them are reached from the root.
IsTree ==
    /\ \A id \in live :
          Cardinality(OwnersOf(id)) = IF id = root THEN 0 ELSE 1
    /\ \A c \in live : \A i \in 1..Len(heap[c].elems) : heap[c].elems[i] > c
    /\ live = IF root = NullId THEN {} ELSE Owned(heap, root)

\* C18: while the events keep to the contract and the build goes on or has returned
\* its document, the live Values are a tree under the pending root with nothing left
\* unowned; and no event changes the variant of a Value.
C18_ValuesFormTree ==
    /\ []((contract /\ (ppc = "parsing" \/ (ppc = "returned" /\ ~aborted))) => IsTree)
    /\ [][\A id \in 1..Len(heap) : heap'[id].tag = heap[id].tag]_vars

\* ---- Duplicate keys and open containers ----

\* The open containers: the handles of the push parser other than the root slot.
OpenHandles == Range(stack) \ {RootSlot}

\* C19: while json_fparse runs, every open container is alive, so that each event
\* is applied to a live container; what an event destroys is what a set with a known
\* key replaced in the innermost open container: a leaf, or a container already
\* closed, with what it owns.
C19_OpenContainersSurvive ==
    /\ [](ppc = "parsing" => OpenHandles \subseteq live)
    /\ [][(ppc' = "parsing" /\ live \ live' # {}) =>
             /\ heap[Target].tag = "Dictionary"
             /\ \E i \in 1..Len(heap[Target].elems) :
                   /\ live \ live' = Owned(heap, heap[Target].elems[i]) \cap live
                   /\ heap'[Target].keys = heap[Target].keys
                   /\ heap'[Target].elems[i] = Len(heap) + 1
             /\ (live \ live') \cap OpenHandles = {}
             /\ OpenHandles \subseteq live']_vars

\* A set with the known key a replaced a closed container: Value 2 is destroyed,
\* Value 3 has its place, and the Dictionary that received the event is still open.
C19_Witness ==
    /\ ppc = "parsing"
    /\ stack = <<RootSlot, 1>>
    /\ Len(heap) = 3
    /\ heap[1].keys = <<KeyA>>
    /\ heap[1].elems = <<3>>
    /\ IsContainer(heap[2])
    /\ live = {1, 3}

====
